---- MODULE Spec2Model ----
(***************************************************************************)
(* TonyOS backend (src/index.js).  The file holds three evolutions of the  *)
(* same backend:                                                           *)
(*   "peruser"   lines   1-332   SQLite, session auth, /api/tasks          *)
(*   "persisted" lines 334-794   Postgres, scores stored at insert time    *)
(*   "recompute" lines 797-1260  Postgres, scores recomputed on read       *)
(* Time is counted in whole hours.  JSON / JavaScript values are tagged    *)
(* records so that typeof, truthiness and parsing can be modelled.         *)
(***************************************************************************)
EXTENDS Integers, Sequences, FiniteSets, TLC

VARIABLES variant, tasks, nextId, now, req, res, arg, ret, dump

vars == <<variant, tasks, nextId, now, req, res, arg, ret, dump>>

(* ------------------------------ bounds --------------------------------- *)

MaxTasks == 2

MaxTicks == 1

(* --------------------------- JavaScript values ------------------------- *)

Null == [k |-> "null"]

Undef == [k |-> "undefined"]

NaN == [k |-> "NaN"]

Num(n) == [k |-> "number", n |-> n]

Str(s) == [k |-> "string", v |-> s]

\* a string the code scans character by character
Txt(cs) == [k |-> "string", c |-> cs]

\* an ISO date string, represented by the instant (in hours) it denotes
Iso(h) == [k |-> "string", v |-> "iso", h |-> h]

typeof(x) ==
  CASE x.k = "number" -> "number"
    [] x.k = "NaN" -> "number"
    [] x.k = "string" -> "string"
    [] x.k = "undefined" -> "undefined"
    [] OTHER -> "object"

\* ToBoolean: null, undefined, NaN, 0 and the empty string are falsy
Truthy(x) ==
  CASE x.k = "null" -> FALSE
    [] x.k = "undefined" -> FALSE
    [] x.k = "NaN" -> FALSE
    [] x.k = "number" -> IF "n" \in DOMAIN x THEN x.n # 0 ELSE TRUE
    [] x.k = "string" -> IF "c" \in DOMAIN x THEN x.c # <<>> ELSE x.v # ""
    [] OTHER -> TRUE

\* x || y
OrElse(x, y) == IF Truthy(x) THEN x ELSE y

\* default-parameter destructuring: the default applies to undefined only
Default(x, d) == IF x = Undef THEN d ELSE x

Min(a, b) == IF a <= b THEN a ELSE b

Max(a, b) == IF a >= b THEN a ELSE b

(* ------------------------------ strings -------------------------------- *)
\* Strings that the code scans (description, a textual priority) are
\* sequences of one-character strings.

Lower(c) ==
  CASE c = "A" -> "a" [] c = "C" -> "c" [] c = "E" -> "e" [] c = "G" -> "g"
    [] c = "I" -> "i" [] c = "L" -> "l" [] c = "M" -> "m" [] c = "T" -> "t"
    [] c = "X" -> "x"
    [] OTHER -> c

toLowerCase(s) == [i \in 1..Len(s) |-> Lower(s[i])]

includes(s, sub) ==
  \E i \in 0..(Len(s) - Len(sub)) : SubSeq(s, i + 1, i + Len(sub)) = sub

DigitChars == {"0", "1", "2", "3", "4", "5", "6", "7", "8", "9"}

DigitVal(c) ==
  CASE c = "0" -> 0 [] c = "1" -> 1 [] c = "2" -> 2 [] c = "3" -> 3
    [] c = "4" -> 4 [] c = "5" -> 5 [] c = "6" -> 6 [] c = "7" -> 7
    [] c = "8" -> 8 [] c = "9" -> 9

RECURSIVE SkipSpace(_)
SkipSpace(s) == IF s # <<>> /\ Head(s) = " " THEN SkipSpace(Tail(s)) ELSE s

RECURSIVE DigitRun(_, _)
\* value of the longest prefix of digits of s, continuing from acc
DigitRun(s, acc) ==
  IF s # <<>> /\ Head(s) \in DigitChars
    THEN DigitRun(Tail(s), acc * 10 + DigitVal(Head(s)))
    ELSE acc

\* parseInt(x, 10) of a string: leading blanks, a sign, then digits up to the
\* first other character; NaN when there is no digit
parseInt(x) ==
  LET s == SkipSpace(x.c)
      neg == s # <<>> /\ Head(s) = "-"
      body == IF s # <<>> /\ Head(s) \in {"-", "+"} THEN Tail(s) ELSE s
  IN IF body = <<>> \/ Head(body) \notin DigitChars
       THEN NaN
       ELSE Num(IF neg THEN 0 - DigitRun(body, 0) ELSE DigitRun(body, 0))

RECURSIVE TrimEnd(_)
TrimEnd(s) ==
  IF s # <<>> /\ s[Len(s)] = " " THEN TrimEnd(SubSeq(s, 1, Len(s) - 1)) ELSE s

\* String.prototype.trim
trim(x) == Txt(TrimEnd(SkipSpace(x.c)))

DigitOf(d) == CHOOSE c \in DigitChars : DigitVal(c) = d

RECURSIVE Decimal(_)
Decimal(n) ==
  IF n < 10 THEN <<DigitOf(n)>> ELSE Append(Decimal(n \div 10), DigitOf(n % 10))

\* String(x) of a string or a number
String(x) ==
  IF x.k = "string" THEN x
  ELSE IF x.n < 0 THEN Txt(<<"-">> \o Decimal(0 - x.n))
  ELSE Txt(Decimal(x.n))

\* Number(x): null is 0, undefined is NaN, a string is its decimal value
\* (0 when blank) or NaN
Number(x) ==
  CASE x.k = "number" -> x
    [] x.k = "null" -> Num(0)
    [] x.k = "string" ->
         LET s == trim(x).c
         IN IF s = <<>> THEN Num(0)
            ELSE IF \A i \in 1..Len(s) : s[i] \in DigitChars THEN Num(DigitRun(s, 0))
            ELSE NaN
    [] OTHER -> NaN

\* Number.isFinite
isFinite(x) == x.k = "number"

\* new Date(x).getTime(), in hours; NaN for an Invalid Date
DateGetTime(x) == IF "h" \in DOMAIN x THEN Num(x.h) ELSE NaN

(* -------------- scoring engine, persisted-score variant ---------------- *)

\* urgencyScore with the 24-hour boundary excluded
urgencyScoreStrict24(task) ==
  LET due == task.due_date
      bucket == task.bucket
  IN IF ~Truthy(due)
       THEN IF bucket = Str("today") THEN 3
            ELSE IF bucket = Str("this_week") THEN 2
            ELSE 1
       ELSE LET d == DateGetTime(due)
            IN IF d = NaN THEN 1
               ELSE LET diffHours == d.n - now
                    IN IF diffHours < 0 THEN 5
                       ELSE IF diffHours < 24 THEN 4
                       ELSE IF diffHours <= 72 THEN 3
                       ELSE IF diffHours <= 24 * 7 THEN 2
                       ELSE 1

\* urgencyScore with the results for "within 72 hours" and "within a week"
\* exchanged
urgencyScoreExchanged(task) ==
  LET due == task.due_date
      bucket == task.bucket
  IN IF ~Truthy(due)
       THEN IF bucket = Str("today") THEN 3
            ELSE IF bucket = Str("this_week") THEN 2
            ELSE 1
       ELSE LET d == DateGetTime(due)
            IN IF d = NaN THEN 1
               ELSE LET diffHours == d.n - now
                    IN IF diffHours < 0 THEN 5
                       ELSE IF diffHours <= 24 THEN 4
                       ELSE IF diffHours <= 72 THEN 2
                       ELSE IF diffHours <= 24 * 7 THEN 3
                       ELSE 1

urgencyScore(task) ==
  LET due == task.due_date
      bucket == task.bucket
  IN IF ~Truthy(due)
       THEN IF bucket = Str("today") THEN 3
            ELSE IF bucket = Str("this_week") THEN 2
            ELSE 1
       ELSE LET d == DateGetTime(due)
            IN IF d = NaN THEN 1
               ELSE LET diffHours == d.n - now
                    IN IF diffHours < 0 THEN 5
                       ELSE IF diffHours <= 24 THEN 4
                       ELSE IF diffHours <= 72 THEN 3
                       ELSE IF diffHours <= 24 * 7 THEN 2
                       ELSE 1

leverageScore(task) ==
  LET p == IF typeof(task.priority) = "number"
             THEN task.priority
             ELSE parseInt(OrElse(task.priority, Txt(<<"3">>)))
      clamped == Min(Max(OrElse(p, Num(3)).n, 1), 5)
  IN 6 - clamped

\* riskScore that rates only an overdue task as risk 4
riskScoreOverdueOnly(task) ==
  LET u == urgencyScore(task)
  IN IF u > 4 THEN 4 ELSE IF u = 3 THEN 3 ELSE 2

riskScore(task) ==
  LET u == urgencyScore(task)
  IN IF u >= 4 THEN 4 ELSE IF u = 3 THEN 3 ELSE 2

\* frictionScore that tests "call"/"email" before "tax"/"accounting"/"legal"
frictionScoreCallFirst(task) ==
  LET desc == toLowerCase(OrElse(task.description, Txt(<<>>)).c)
  IN IF desc = <<>> THEN 2
     ELSE IF \/ includes(desc, <<"c", "a", "l", "l">>)
             \/ includes(desc, <<"e", "m", "a", "i", "l">>)
       THEN 1
     ELSE IF \/ includes(desc, <<"t", "a", "x">>)
             \/ includes(desc, <<"a", "c", "c", "o", "u", "n", "t", "i", "n", "g">>)
             \/ includes(desc, <<"l", "e", "g", "a", "l">>)
       THEN 3
     ELSE 2

frictionScore(task) ==
  LET desc == toLowerCase(OrElse(task.description, Txt(<<>>)).c)
  IN IF desc = <<>> THEN 2
     ELSE IF \/ includes(desc, <<"t", "a", "x">>)
             \/ includes(desc, <<"a", "c", "c", "o", "u", "n", "t", "i", "n", "g">>)
             \/ includes(desc, <<"l", "e", "g", "a", "l">>)
       THEN 3
     ELSE IF \/ includes(desc, <<"c", "a", "l", "l">>)
             \/ includes(desc, <<"e", "m", "a", "i", "l">>)
       THEN 1
     ELSE 2

\* computeScores that adds friction instead of subtracting it
computeScoresPlusFriction(task) ==
  LET L == leverageScore(task)
      U == urgencyScore(task)
      R == riskScore(task)
      F == frictionScore(task)
  IN [L |-> L, U |-> U, R |-> R, F |-> F, score |-> L + U + R + F]

computeScores(task) ==
  LET L == leverageScore(task)
      U == urgencyScore(task)
      R == riskScore(task)
      F == frictionScore(task)
  IN [L |-> L, U |-> U, R |-> R, F |-> F, score |-> L + U + R - F]

(* ----------------- scoring engine, recompute variant ------------------- *)

computeTonyScore(t) ==
  LET bucket == OrElse(t.bucket, Str("later"))
      urgencyT ==
        IF ~Truthy(t.due_date)
          THEN IF bucket = Str("today") THEN 3
               ELSE IF bucket = Str("this_week") THEN 2
               ELSE 1
          ELSE LET d == DateGetTime(t.due_date)
               IN IF d = NaN THEN 1
                  ELSE LET diffHours == d.n - now
                       IN IF diffHours < 0 THEN 5
                          ELSE IF diffHours <= 24 THEN 4
                          ELSE IF diffHours <= 72 THEN 3
                          ELSE IF diffHours <= 24 * 7 THEN 2
                          ELSE 1
      leverageT ==
        IF typeof(t.leverage_score) = "number" THEN t.leverage_score.n
        ELSE LET p == IF typeof(t.priority) = "number" THEN t.priority.n ELSE 3
                 clamped == Min(Max(p, 1), 5)
             IN 6 - clamped
      riskT ==
        IF typeof(t.risk_score) = "number" THEN t.risk_score.n
        ELSE IF urgencyT >= 4 THEN 4 ELSE IF urgencyT = 3 THEN 3 ELSE 2
      frictionT ==
        IF typeof(t.friction_score) = "number" THEN t.friction_score.n
        ELSE LET desc == toLowerCase(OrElse(t.description, Txt(<<>>)).c)
             IN IF desc = <<>> THEN 2
                ELSE IF \/ includes(desc, <<"t", "a", "x">>)
                        \/ includes(desc, <<"a", "c", "c", "o", "u", "n", "t", "i", "n", "g">>)
                        \/ includes(desc, <<"l", "e", "g", "a", "l">>)
                  THEN 3
                ELSE IF \/ includes(desc, <<"c", "a", "l", "l">>)
                        \/ includes(desc, <<"e", "m", "a", "i", "l">>)
                  THEN 1
                ELSE 2
  IN [L |-> leverageT, U |-> urgencyT, R |-> riskT, F |-> frictionT,
      score |-> leverageT + urgencyT + riskT - frictionT]

(* ---------------- the scoring functions applied to inputs -------------- *)

NoValue == [k |-> "none"]

ScoreNows == {0, 7}

ScoreDueHours == {-3, 0, 1, 24, 25, 31, 72, 73, 79, 168, 169, 175, 176, 400}

ScoreBuckets == {Str("today"), Str("this_week"), Str("later"), Str("backlog"), Str(""), Null}

\* "2", "0", "abc", "-4", "7x", " 5"
ScorePriorityTexts ==
  {Txt(<<"2">>), Txt(<<"0">>), Txt(<<"a", "b", "c">>), Txt(<<"-", "4">>),
   Txt(<<"7", "x">>), Txt(<<" ", "5">>)}

ScorePriorityNumbers == {Num(p) : p \in {-2, 0, 1, 2, 3, 4, 5, 6, 9}}

\* "", "Tax", "call legal", "email", "Call", "ACCOUNTING", "write", "recall",
\* "mail", "LEGAL email", " "
ScoreDescriptions ==
  {Null,
   Txt(<<>>),
   Txt(<<"T", "a", "x">>),
   Txt(<<"c", "a", "l", "l", " ", "l", "e", "g", "a", "l">>),
   Txt(<<"e", "m", "a", "i", "l">>),
   Txt(<<"C", "a", "l", "l">>),
   Txt(<<"A", "C", "C", "O", "U", "N", "T", "I", "N", "G">>),
   Txt(<<"w", "r", "i", "t", "e">>),
   Txt(<<"r", "e", "c", "a", "l", "l">>),
   Txt(<<"m", "a", "i", "l">>),
   Txt(<<"L", "E", "G", "A", "L", " ", "e", "m", "a", "i", "l">>),
   Txt(<<" ">>)}

\* what POST /tasks and /brain-dump of the persisted-score variant hand to
\* computeScores: raw request / draft values
ComputeScoresInputs ==
  [priority : ScorePriorityNumbers \cup ScorePriorityTexts \cup {Null, Undef},
   bucket : ScoreBuckets,
   due_date : {Null, Str(""), Str("garbage")} \cup {Iso(h) : h \in ScoreDueHours},
   description : ScoreDescriptions]

\* what withScores hands to computeTonyScore: rows of the tasks table, whose
\* score columns no statement of the recompute variant ever writes
ComputeTonyScoreInputs ==
  [priority : ScorePriorityNumbers,
   bucket : ScoreBuckets \ {Null},
   due_date : {Null} \cup {Iso(h) : h \in ScoreDueHours},
   description : ScoreDescriptions,
   leverage_score : {Null},
   risk_score : {Null},
   friction_score : {Null}]

InitScore ==
  /\ variant = "none"
  /\ tasks = <<>>
  /\ nextId = 1
  /\ req = NoValue
  /\ res = NoValue
  /\ now \in ScoreNows
  /\ dump = NoValue
  /\ \/ arg \in [fn : {"computeScores"}, task : ComputeScoresInputs]
     \/ arg \in [fn : {"computeTonyScore"}, task : ComputeTonyScoreInputs]
  /\ ret = NoValue

CallComputeScores ==
  /\ arg.fn = "computeScores"
  /\ ret = NoValue
  /\ ret' = computeScores(arg.task)
  /\ UNCHANGED <<variant, tasks, nextId, now, req, res, arg, dump>>

CallComputeTonyScore ==
  /\ arg.fn = "computeTonyScore"
  /\ ret = NoValue
  /\ ret' = computeTonyScore(arg.task)
  /\ UNCHANGED <<variant, tasks, nextId, now, req, res, arg, dump>>

NextScore == CallComputeScores \/ CallComputeTonyScore

SpecScore == InitScore /\ [][NextScore]_vars

(* ------------- the scoring functions as the clock advances ------------- *)

\* the last hour of the clock
ClockEnd == 210

ClockSteps == {1, 24, 100}

ClockDues == {Null, Iso(200), Iso(30), Iso(0)}

ClockBuckets == {Str("today"), Str("this_week"), Str("later")}

ClockInputs ==
  [priority : {Num(2)}, bucket : ClockBuckets, due_date : ClockDues,
   description : {Null}, leverage_score : {Null}, risk_score : {Null},
   friction_score : {Null}]

InitClock ==
  /\ variant = "none"
  /\ tasks = <<>>
  /\ nextId = 1
  /\ req = NoValue
  /\ res = NoValue
  /\ now = 0
  /\ dump = NoValue
  /\ arg \in [fn : {"computeScores", "computeTonyScore"}, task : ClockInputs]
  /\ ret = IF arg.fn = "computeScores"
             THEN computeScores(arg.task)
             ELSE computeTonyScore(arg.task)

\* the clock advances and computeScores is applied to the same task again
ClockComputeScores ==
  /\ arg.fn = "computeScores"
  /\ \E d \in ClockSteps :
       /\ now + d <= ClockEnd
       /\ now' = now + d
  /\ UNCHANGED <<variant, tasks, nextId, req, res, arg, dump>>
  /\ ret' = computeScores(arg.task)'

\* the clock advances and computeTonyScore is applied to the same row again
ClockComputeTonyScore ==
  /\ arg.fn = "computeTonyScore"
  /\ \E d \in ClockSteps :
       /\ now + d <= ClockEnd
       /\ now' = now + d
  /\ UNCHANGED <<variant, tasks, nextId, req, res, arg, dump>>
  /\ ret' = computeTonyScore(arg.task)'

NextClock == ClockComputeScores \/ ClockComputeTonyScore

SpecClock == InitClock /\ [][NextClock]_vars

(* ------------------- claims about the scoring engine ------------------- *)

\* the task handed to the scoring function, once it has returned
Scored == ret # NoValue

DueAbsent(t) == t.due_date \in {Null, Undef, Str("")}

DueValid(t) == "h" \in DOMAIN t.due_date

HoursLeft(t) == t.due_date.h - now

\* C2: the composite score is Leverage + Urgency + Risk - Friction of the
\* sub-scores returned with it, unclamped; priority 1, bucket today, no due
\* date and an empty description give 5, 3, 3, 2 and 9.
C2_Composite ==
  Scored =>
    /\ ret.score = ret.L + ret.U + ret.R - ret.F
    /\ ( /\ arg.task.priority = Num(1)
         /\ arg.task.bucket = Str("today")
         /\ arg.task.due_date = Null
         /\ arg.task.description = Txt(<<>>) )
       => ret = [L |-> 5, U |-> 3, R |-> 3, F |-> 2, score |-> 9]

C2_Witness ==
  /\ Scored
  /\ arg.task.priority = Num(1)
  /\ arg.task.bucket = Str("today")
  /\ arg.task.due_date = Null
  /\ arg.task.description = Txt(<<>>)
  /\ ret.score = 9

\* C3: urgency is an integer in 1..5; without a due date it is 3 for bucket
\* today, 2 for this_week, 1 for any other bucket; with a valid due date h
\* hours away it is 5 for h < 0, 4 for 0 <= h <= 24, 3 for 24 < h <= 72,
\* 2 for 72 < h <= 168, 1 for h > 168, whatever the bucket; an unparsable
\* due date gives 1.  (An empty due-date string counts as no due date.)
C3_Urgency ==
  Scored =>
    LET t == arg.task
    IN /\ ret.U \in 1..5
       /\ DueAbsent(t) =>
            ret.U = (CASE t.bucket = Str("today") -> 3
                       [] t.bucket = Str("this_week") -> 2
                       [] OTHER -> 1)
       /\ DueValid(t) =>
            /\ HoursLeft(t) < 0 => ret.U = 5
            /\ (0 <= HoursLeft(t) /\ HoursLeft(t) <= 24) => ret.U = 4
            /\ (24 < HoursLeft(t) /\ HoursLeft(t) <= 72) => ret.U = 3
            /\ (72 < HoursLeft(t) /\ HoursLeft(t) <= 168) => ret.U = 2
            /\ HoursLeft(t) > 168 => ret.U = 1
       /\ (~DueAbsent(t) /\ ~DueValid(t)) => ret.U = 1

C3_Witness ==
  /\ Scored
  /\ DueValid(arg.task)
  /\ HoursLeft(arg.task) = 24
  /\ arg.task.bucket = Str("backlog")
  /\ ret.U = 4

\* C4: for a numeric priority p leverage is 6 - min(max(p, 1), 5), so every
\* priority below 1, zero included, gives 5 and every priority above 5 gives
\* 1; only a non-numeric or absent priority counts as 3.
C4_Leverage ==
  Scored =>
    LET p == arg.task.priority
    IN /\ p.k = "number" =>
            ret.L = (IF p.n < 1 THEN 5 ELSE IF p.n > 5 THEN 1 ELSE 6 - p.n)
       /\ p \in {Null, Undef, Txt(<<"a", "b", "c">>)} => ret.L = 3

\* C5: the risk returned for a task is decided by the urgency returned for
\* it: 4 for urgency 4 or 5, 3 for urgency 3, 2 for urgency 1 or 2.
C5_Risk ==
  Scored =>
    ret.R = (CASE ret.U \in {4, 5} -> 4
               [] ret.U = 3 -> 3
               [] ret.U \in {1, 2} -> 2)

C5_Witness ==
  /\ Scored
  /\ arg.task.bucket = Str("later")
  /\ ret.U = 4
  /\ ret.R = 4

HasWord(t, words) ==
  /\ t.description # Null
  /\ \E w \in words : includes(toLowerCase(t.description.c), w)

HeavyWords ==
  {<<"t", "a", "x">>, <<"a", "c", "c", "o", "u", "n", "t", "i", "n", "g">>,
   <<"l", "e", "g", "a", "l">>}

LightWords == {<<"c", "a", "l", "l">>, <<"e", "m", "a", "i", "l">>}

NotNullOk(f) ==
  f.title # Null /\ f.status # Null /\ f.bucket # Null /\ f.priority # Null

\* CREATE TABLE tasks of the per-user variant (SQLite)
SqliteAccepts(f) == NotNullOk(f)

\* what the TIMESTAMPTZ column due_date takes: NULL or a date string
IsTimestamp(x) == x = Null \/ "h" \in DOMAIN x

\* CREATE TABLE tasks of the Postgres variants
PgAccepts(f) == NotNullOk(f) /\ IsTimestamp(f.due_date)

\* the id of a request path after Number(req.params.id): an integer, NaN, or
\* an integer beyond the range of the INTEGER id column (SERIAL is 32 bits)
BeyondInt4 == [k |-> "number", beyondInt4 |-> TRUE]

IsInteger(x) == x.k = "number"

InInt4(x) == "n" \in DOMAIN x

Users == {1, 2}

NoUser == 0

(* ------------------------------ requests ------------------------------- *)

EmptyBody ==
  [title |-> Undef, description |-> Undef, area |-> Undef, status |-> Undef,
   bucket |-> Undef, priority |-> Undef, due_date |-> Undef]

\* bodies of create requests: no title, an empty title, a title that is not
\* a string, a title alone, every field supplied, values outside the
\* documented domains, and a null for a NOT NULL column
CreateBodies ==
  { EmptyBody,
    [EmptyBody EXCEPT !.title = Str("")],
    [EmptyBody EXCEPT !.title = Num(5)],
    [EmptyBody EXCEPT !.title = Str("Pay tax")],
    [EmptyBody EXCEPT !.title = Str("Call bank"),
                      !.description = Txt(<<"c", "a", "l", "l">>),
                      !.area = Str("Home"), !.status = Str("doing"),
                      !.bucket = Str("today"), !.priority = Num(1),
                      !.due_date = Iso(30)],
    [EmptyBody EXCEPT !.title = Str("Someday"), !.description = Null,
                      !.bucket = Str("someday"), !.priority = Num(0),
                      !.status = Str("waiting"), !.due_date = Null],
    [EmptyBody EXCEPT !.title = Str("Pay tax"), !.status = Null] }

\* bodies of create requests to /api/tasks: no title, a title alone, every
\* field supplied, and a null for a NOT NULL column
ApiCreateBodies ==
  {b \in CreateBodies :
     b.title \in {Undef, Str("Pay tax"), Str("Call bank")}}

IdParams == {Num(i) : i \in 1..(MaxTasks + 1)} \cup {NaN, BeyondInt4}

TickSteps == {24}

TitleOk(title) == Truthy(title) /\ typeof(title) = "string"

Response(code, body) == [code |-> code, body |-> body]

ErrorBody == [error |-> TRUE]

(* ------------------- the text-generation collaborator ------------------ *)
\* What client.chat.completions.create comes back with: the call throws
\* (the service is unreachable), the completion carries no text, its text
\* is not JSON, or its text is the JSON list of drafts the route expects.

Unreachable == [k |-> "unreachable"]

NoText == [k |-> "notext"]

Malformed == [k |-> "malformed"]

Drafts(ds) == [k |-> "drafts", drafts |-> ds]

EmptyDraft ==
  [title |-> Undef, description |-> Undef, bucket |-> Undef, area |-> Undef,
   priority |-> Undef, due_date |-> Undef]

FixDraft ==
  [EmptyDraft EXCEPT !.title = Txt(<<"F", "i", "x">>), !.bucket = Str("today"),
                     !.description = Txt(<<"c", "a", "l", "l">>),
                     !.priority = Num(2), !.due_date = Iso(30)]

PlanDraft == [EmptyDraft EXCEPT !.title = Txt(<<"P", "l", "a", "n">>)]

\* draft lists: none, an untitled draft first, an untitled draft between two
\* titled ones, and a draft whose due date is not a date after a complete one
DraftLists ==
  { <<>>,
    <<[EmptyDraft EXCEPT !.title = Txt(<<>>)], PlanDraft>>,
    <<FixDraft, EmptyDraft, PlanDraft>>,
    <<FixDraft, [PlanDraft EXCEPT !.due_date = Str("soon")]>> }

DumpReplies == {Unreachable, NoText, Malformed} \cup {Drafts(ds) : ds \in DraftLists}

\* bodies of brain-dump requests: no text, and text with a default area
DumpBodies ==
  { [text |-> Undef, default_bucket |-> Undef, default_area |-> Undef],
    [text |-> Str("dump"), default_bucket |-> Undef, default_area |-> Str("Home")] }

\* created.push that keeps only the row pushed last
pushLast(created, row) == <<row>>

\* created.push(row)
push(created, row) == Append(created, row)

\* the request a brain-dump answers, with what the collaborator returned
DumpReq(body, reply) ==
  [op |-> "brain-dump", user |-> NoUser, body |-> body, reply |-> reply]

\* a completion whose text is free text
Text(cs) == [k |-> "text", text |-> Txt(cs)]

\* what the collaborator answers a chat with: no answer, no text, "ok" and
\* " ok "
ChatReplies ==
  {Unreachable, NoText, Text(<<"o", "k">>), Text(<<" ", "o", "k", " ">>)}

\* bodies of chat requests: no prompt, a prompt that is not a string, and a
\* prompt
ChatBodies == {[prompt |-> Undef], [prompt |-> Num(5)], [prompt |-> Str("next?")]}

\* the request a chat answers, with what was sent to the collaborator (when
\* it was called) and what it returned
ChatReq(body, sent, reply) ==
  [op |-> "chat", user |-> NoUser, body |-> body, sent |-> sent, reply |-> reply]

\* Answer without the trim
AnswerRaw(reply, fallback) ==
  IF reply = NoText THEN fallback ELSE OrElse(reply.text, fallback)

\* completion.choices[0]?.message?.content?.trim() || fallback
Answer(reply, fallback) ==
  IF reply = NoText THEN fallback ELSE OrElse(trim(reply.text), fallback)

(* --------------------------- ordered SELECT ---------------------------- *)

Perms(n) ==
  {p \in [1..n -> 1..n] : \A i, j \in 1..n : i # j => p[i] # p[j]}

\* lexicographic order on two sort keys (tuples of integers of equal length)
RECURSIVE KeyLess(_, _)
KeyLess(x, y) ==
  /\ x # <<>>
  /\ \/ Head(x) < Head(y)
     \/ Head(x) = Head(y) /\ KeyLess(Tail(x), Tail(y))

\* the orders in which a SELECT ... ORDER BY may return rows: every
\* arrangement that is ascending in the sort key (rows equal on the key come
\* in any order)
OrderBy(rows, Key(_)) ==
  {[i \in 1..Len(rows) |-> rows[p[i]]] :
     p \in {q \in Perms(Len(rows)) :
              \A i, j \in 1..Len(rows) :
                 i < j => ~KeyLess(Key(rows[q[j]]), Key(rows[q[i]]))}}

(* ------------------------- per-user variant ----------------------------- *)

ensureAuth(u) == u \in Users

\* a request to an /api/tasks route that ensureAuth turns away
Unauthorized(op) ==
  /\ variant = "peruser"
  /\ ~ensureAuth(NoUser)
  /\ req' = [op |-> op, user |-> NoUser]
  /\ res' = Response(401, ErrorBody)
  /\ UNCHANGED <<variant, tasks, nextId, now, arg, ret, dump>>

CreateFieldsPerUser(body) ==
  [title |-> body.title,
   description |-> Default(body.description, Txt(<<>>)),
   area |-> Default(body.area, Str("")),
   status |-> Default(body.status, Str("todo")),
   bucket |-> Default(body.bucket, Str("later")),
   priority |-> Default(body.priority, Num(3)),
   due_date |-> Default(body.due_date, Null)]

insertTaskStmt(f, u) ==
  [id |-> nextId, title |-> f.title, description |-> f.description,
   area |-> f.area, status |-> f.status, bucket |-> f.bucket,
   priority |-> f.priority, due_date |-> f.due_date,
   created_at |-> now, updated_at |-> now, user_id |-> u]

\* POST /api/tasks
CreatePerUser(u, body) ==
  /\ variant = "peruser"
  /\ ensureAuth(u)
  /\ req' = [op |-> "create", user |-> u, body |-> body]
  /\ IF ~TitleOk(body.title)
       THEN /\ res' = Response(400, ErrorBody)
            /\ UNCHANGED <<tasks, nextId>>
     ELSE IF ~SqliteAccepts(CreateFieldsPerUser(body))
       THEN /\ res' = Response(500, ErrorBody)
            /\ UNCHANGED <<tasks, nextId>>
     ELSE /\ nextId <= MaxTasks
          /\ tasks' = Append(tasks, insertTaskStmt(CreateFieldsPerUser(body), u))
          /\ nextId' = nextId + 1
          /\ res' = Response(201, insertTaskStmt(CreateFieldsPerUser(body), u))
  /\ UNCHANGED <<variant, now, arg, ret, dump>>

\* ORDER BY CASE bucket ... END, priority ASC, created_at DESC
\* (SQLite sorts every integer before every text value)
listTasksKey(r) ==
  <<CASE r.bucket = Str("today") -> 1
      [] r.bucket = Str("this_week") -> 2
      [] r.bucket = Str("later") -> 3
      [] OTHER -> 4,
    IF r.priority.k = "number" THEN 0 ELSE 1,
    IF r.priority.k = "number" THEN r.priority.n ELSE 0,
    0 - r.created_at>>

listTasksStmt(u) ==
  OrderBy(SelectSeq(tasks, LAMBDA r : r.user_id = u), listTasksKey)

\* GET /api/tasks
ListPerUser(u) ==
  /\ variant = "peruser"
  /\ ensureAuth(u)
  /\ req' = [op |-> "list", user |-> u]
  /\ \E rows \in listTasksStmt(u) : res' = Response(200, rows)
  /\ UNCHANGED <<variant, tasks, nextId, now, arg, ret, dump>>

\* bodies of update requests: an emptied title with a new status, and a
\* null for a NOT NULL column
UpdateBodies ==
  { [EmptyBody EXCEPT !.title = Str(""), !.status = Str("done")],
    [EmptyBody EXCEPT !.priority = Null] }

\* SELECT * FROM tasks WHERE id = ? AND user_id = ?
RowsOfUser(table, id, u) ==
  SelectSeq(table, LAMBDA r : InInt4(id) /\ r.id = id.n /\ r.user_id = u)

UpdateFields(body, existing) ==
  [title |-> Default(body.title, existing.title),
   description |-> Default(body.description, existing.description),
   area |-> Default(body.area, existing.area),
   status |-> Default(body.status, existing.status),
   bucket |-> Default(body.bucket, existing.bucket),
   priority |-> Default(body.priority, existing.priority),
   due_date |-> Default(body.due_date, existing.due_date)]

\* UPDATE tasks SET ... WHERE id = @id AND user_id = @user_id
updateTaskStmt(id, u, f) ==
  [i \in 1..Len(tasks) |->
     IF tasks[i].id = id /\ tasks[i].user_id = u
       THEN [tasks[i] EXCEPT !.title = f.title, !.description = f.description,
                             !.area = f.area, !.status = f.status,
                             !.bucket = f.bucket, !.priority = f.priority,
                             !.due_date = f.due_date, !.updated_at = now]
       ELSE tasks[i]]

\* PUT /api/tasks/:id
UpdatePerUser(u, id, body) ==
  /\ variant = "peruser"
  /\ ensureAuth(u)
  /\ req' = [op |-> "update", user |-> u, id |-> id, body |-> body]
  /\ IF ~Truthy(id)
       THEN /\ res' = Response(400, ErrorBody)
            /\ UNCHANGED tasks
     ELSE IF RowsOfUser(tasks, id, u) = <<>>
       THEN /\ res' = Response(404, ErrorBody)
            /\ UNCHANGED tasks
     ELSE LET f == UpdateFields(body, RowsOfUser(tasks, id, u)[1])
          IN IF ~SqliteAccepts(f)
               THEN /\ res' = Response(500, ErrorBody)
                    /\ UNCHANGED tasks
               ELSE /\ tasks' = updateTaskStmt(id.n, u, f)
                    /\ res' = Response(200, RowsOfUser(updateTaskStmt(id.n, u, f), id, u)[1])
  /\ UNCHANGED <<variant, nextId, now, arg, ret, dump>>

\* deleteTaskStmt without the user_id condition
deleteTaskStmtAnyUser(id, u) ==
  SelectSeq(tasks, LAMBDA r : ~(InInt4(id) /\ r.id = id.n))

\* DELETE FROM tasks WHERE id = ? AND user_id = ?
deleteTaskStmt(id, u) ==
  SelectSeq(tasks, LAMBDA r : ~(InInt4(id) /\ r.id = id.n /\ r.user_id = u))

\* DELETE /api/tasks/:id
DeletePerUser(u, id) ==
  /\ variant = "peruser"
  /\ ensureAuth(u)
  /\ req' = [op |-> "delete", user |-> u, id |-> id]
  /\ IF ~Truthy(id)
       THEN /\ res' = Response(400, ErrorBody)
            /\ UNCHANGED tasks
       ELSE /\ tasks' = deleteTaskStmt(id, u)
            /\ res' = Response(204, NoValue)
  /\ UNCHANGED <<variant, nextId, now, arg, ret, dump>>

(* ----------------------- persisted-score variant ------------------------ *)

CreateFieldsPersisted(body) ==
  [title |-> body.title,
   description |-> Default(body.description, Null),
   area |-> Default(body.area, Null),
   status |-> Default(body.status, Str("open")),
   bucket |-> Default(body.bucket, Str("later")),
   priority |-> Default(body.priority, Num(3)),
   due_date |-> Default(body.due_date, Null)]

InsertPersisted(f, scores) ==
  [id |-> nextId, title |-> f.title, description |-> f.description,
   area |-> f.area, status |-> f.status, bucket |-> f.bucket,
   priority |-> f.priority,
   leverage_score |-> Num(scores.L), urgency_score |-> Num(scores.U),
   risk_score |-> Num(scores.R), friction_score |-> Num(scores.F),
   due_date |-> f.due_date, created_at |-> now, updated_at |-> now]

\* POST /tasks
CreatePersisted(body) ==
  /\ variant = "persisted"
  /\ req' = [op |-> "create", user |-> NoUser, body |-> body]
  /\ IF ~TitleOk(body.title)
       THEN /\ res' = Response(400, ErrorBody)
            /\ UNCHANGED <<tasks, nextId>>
     ELSE IF ~PgAccepts(CreateFieldsPersisted(body))
       THEN /\ res' = Response(500, ErrorBody)
            /\ UNCHANGED <<tasks, nextId>>
     ELSE LET f == CreateFieldsPersisted(body)
              row == InsertPersisted(f, computeScores(f))
          IN /\ nextId <= MaxTasks
             /\ tasks' = Append(tasks, row)
             /\ nextId' = nextId + 1
             /\ res' = Response(201, row)
  /\ UNCHANGED <<variant, now, arg, ret, dump>>

\* ORDER BY created_at ASC
createdAtKey(r) == <<r.created_at>>

\* GET /tasks
ListPersisted ==
  /\ variant = "persisted"
  /\ req' = [op |-> "list", user |-> NoUser]
  /\ \E rows \in OrderBy(tasks, createdAtKey) : res' = Response(200, rows)
  /\ UNCHANGED <<variant, tasks, nextId, now, arg, ret, dump>>

\* UPDATE tasks SET status = 'done', updated_at = NOW() WHERE id = $1
MarkDone(id) ==
  [i \in 1..Len(tasks) |->
     IF tasks[i].id = id
       THEN [tasks[i] EXCEPT !.status = Str("done"), !.updated_at = now]
       ELSE tasks[i]]

\* the rows of a table with the given id
RowsWithId(table, id) == SelectSeq(table, LAMBDA r : r.id = id)

\* PATCH /tasks/:id/complete
CompletePersisted(id) ==
  /\ variant = "persisted"
  /\ req' = [op |-> "complete", user |-> NoUser, id |-> id]
  /\ IF ~IsInteger(id)
       THEN /\ res' = Response(400, ErrorBody)
            /\ UNCHANGED tasks
     ELSE IF ~InInt4(id)
       THEN /\ res' = Response(500, ErrorBody)
            /\ UNCHANGED tasks
     ELSE /\ tasks' = MarkDone(id.n)
          /\ res' = IF RowsWithId(MarkDone(id.n), id.n) = <<>>
                      THEN Response(404, ErrorBody)
                      ELSE Response(200, RowsWithId(MarkDone(id.n), id.n)[1])
  /\ UNCHANGED <<variant, nextId, now, arg, ret, dump>>

\* DELETE FROM tasks WHERE id = $1
DeleteRows(id) == SelectSeq(tasks, LAMBDA r : r.id # id)

\* DELETE /tasks/:id
DeletePersisted(id) ==
  /\ variant = "persisted"
  /\ req' = [op |-> "delete", user |-> NoUser, id |-> id]
  /\ IF ~IsInteger(id)
       THEN /\ res' = Response(400, ErrorBody)
            /\ UNCHANGED tasks
     ELSE IF ~InInt4(id)
       THEN /\ res' = Response(500, ErrorBody)
            /\ UNCHANGED tasks
     ELSE /\ tasks' = DeleteRows(id.n)
          /\ res' = IF Len(DeleteRows(id.n)) = Len(tasks)
                      THEN Response(404, ErrorBody)
                      ELSE Response(204, NoValue)
  /\ UNCHANGED <<variant, nextId, now, arg, ret, dump>>

\* the title of a draft: String(t.title || "").trim()
DraftTitlePersisted(t) == trim(String(OrElse(t.title, Txt(<<>>))))

\* the loop of POST /brain-dump up to its next insert: drafts without a
\* title are passed over
RECURSIVE SkipUntitledPersisted(_)
SkipUntitledPersisted(ds) ==
  IF ds # <<>> /\ ~Truthy(DraftTitlePersisted(Head(ds)))
    THEN SkipUntitledPersisted(Tail(ds))
    ELSE ds

DraftFieldsPersisted(t, body) ==
  [title |-> DraftTitlePersisted(t),
   description |-> IF Truthy(t.description) THEN String(t.description) ELSE Null,
   area |-> IF Truthy(t.area) THEN String(t.area) ELSE Default(body.default_area, Null),
   status |-> Str("open"),
   bucket |-> OrElse(t.bucket, Default(body.default_bucket, Str("today"))),
   priority |-> IF isFinite(Number(t.priority)) THEN Number(t.priority) ELSE Num(3),
   due_date |-> OrElse(t.due_date, Null)]

\* POST /brain-dump from the request to its first insert
DumpStartPersisted(body, reply) ==
  /\ variant = "persisted"
  /\ dump = NoValue
  /\ IF ~TitleOk(body.text)
       THEN /\ res' = Response(400, ErrorBody)
            /\ req' = DumpReq(body, NoValue)
            /\ UNCHANGED dump
     ELSE IF reply = Unreachable
       THEN /\ res' = Response(500, ErrorBody)
            /\ req' = DumpReq(body, reply)
            /\ UNCHANGED dump
     ELSE IF reply = Malformed
       THEN /\ res' = Response(502, ErrorBody)
            /\ req' = DumpReq(body, reply)
            /\ UNCHANGED dump
     ELSE LET ds == IF reply = NoText THEN <<>> ELSE reply.drafts
          IN IF ds = <<>>
               THEN /\ res' = Response(200, <<>>)
                    /\ req' = DumpReq(body, reply)
                    /\ UNCHANGED dump
             ELSE IF SkipUntitledPersisted(ds) = <<>>
               THEN /\ res' = Response(201, <<>>)
                    /\ req' = DumpReq(body, reply)
                    /\ UNCHANGED dump
             ELSE /\ dump' = [body |-> body, reply |-> reply,
                              pending |-> SkipUntitledPersisted(ds),
                              created |-> <<>>]
                  /\ req' = NoValue
                  /\ res' = NoValue
  /\ UNCHANGED <<variant, tasks, nextId, now, arg, ret>>

\* POST /brain-dump from one insert to the next, or to the response
DumpInsertPersisted ==
  /\ variant = "persisted"
  /\ dump # NoValue
  /\ LET f == DraftFieldsPersisted(Head(dump.pending), dump.body)
         row == InsertPersisted(f, computeScores(f))
         rest == SkipUntitledPersisted(Tail(dump.pending))
     IN IF ~PgAccepts(f)
          THEN /\ res' = Response(500, ErrorBody)
               /\ req' = DumpReq(dump.body, dump.reply)
               /\ dump' = NoValue
               /\ UNCHANGED <<tasks, nextId>>
          ELSE /\ nextId <= MaxTasks
               /\ tasks' = Append(tasks, row)
               /\ nextId' = nextId + 1
               /\ IF rest = <<>>
                    THEN /\ res' = Response(201, push(dump.created, row))
                         /\ req' = DumpReq(dump.body, dump.reply)
                         /\ dump' = NoValue
                    ELSE /\ dump' = [dump EXCEPT !.pending = rest,
                                                 !.created = push(@, row)]
                         /\ req' = NoValue
                         /\ res' = NoValue
  /\ UNCHANGED <<variant, now, arg, ret>>

\* POST /chat
ChatPersisted(body, reply) ==
  /\ variant = "persisted"
  /\ IF ~TitleOk(body.prompt)
       THEN /\ res' = Response(400, ErrorBody)
            /\ req' = ChatReq(body, NoValue, NoValue)
       ELSE \E rows \in OrderBy(tasks, createdAtKey) :
              /\ req' = ChatReq(body, [prompt |-> body.prompt, tasks |-> rows], reply)
              /\ res' = IF reply = Unreachable
                          THEN Response(500, ErrorBody)
                          ELSE Response(200, [response |-> Answer(reply, Txt(<<>>))])
  /\ UNCHANGED <<variant, tasks, nextId, now, arg, ret, dump>>

(* -------------------------- recompute variant --------------------------- *)

ScoreKeys == {"L", "U", "R", "F", "score"}

\* { ...t, ...metrics }
withScoresRow(t) ==
  LET metrics == computeTonyScore(t)
  IN [c \in (DOMAIN t) \cup ScoreKeys |->
        IF c \in ScoreKeys THEN Num(metrics[c]) ELSE t[c]]

withScores(rows) == [i \in 1..Len(rows) |-> withScoresRow(rows[i])]

\* CreateFieldsRecompute with the brain-dump default bucket
CreateFieldsRecomputeToday(body) ==
  [title |-> body.title,
   description |-> Default(body.description, Null),
   area |-> Default(body.area, Null),
   bucket |-> Default(body.bucket, Str("today")),
   status |-> Default(body.status, Str("open")),
   priority |-> Default(body.priority, Num(3)),
   due_date |-> Default(body.due_date, Null)]

CreateFieldsRecompute(body) ==
  [title |-> body.title,
   description |-> Default(body.description, Null),
   area |-> Default(body.area, Null),
   bucket |-> Default(body.bucket, Str("later")),
   status |-> Default(body.status, Str("open")),
   priority |-> Default(body.priority, Num(3)),
   due_date |-> Default(body.due_date, Null)]

InsertRecompute(f) ==
  [id |-> nextId, title |-> f.title, description |-> f.description,
   area |-> f.area, status |-> f.status, bucket |-> f.bucket,
   priority |-> f.priority,
   leverage_score |-> Null, urgency_score |-> Null, risk_score |-> Null,
   friction_score |-> Null, score |-> Null,
   due_date |-> f.due_date, created_at |-> now, updated_at |-> now]

\* POST /tasks
CreateRecompute(body) ==
  /\ variant = "recompute"
  /\ req' = [op |-> "create", user |-> NoUser, body |-> body]
  /\ IF ~TitleOk(body.title)
       THEN /\ res' = Response(400, ErrorBody)
            /\ UNCHANGED <<tasks, nextId>>
     ELSE IF ~PgAccepts(CreateFieldsRecompute(body))
       THEN /\ res' = Response(500, ErrorBody)
            /\ UNCHANGED <<tasks, nextId>>
     ELSE LET row == InsertRecompute(CreateFieldsRecompute(body))
          IN /\ nextId <= MaxTasks
             /\ tasks' = Append(tasks, row)
             /\ nextId' = nextId + 1
             /\ res' = Response(201, withScoresRow(row))
  /\ UNCHANGED <<variant, now, arg, ret, dump>>

\* COALESCE(due_date, '9999-12-31'), in hours
Year9999 == 70000000

\* the rank of a bucket text in the column's text order
BucketTextOrder == <<"", "backlog", "later", "someday", "this_week", "today">>

TextRank(x) == CHOOSE i \in 1..Len(BucketTextOrder) : BucketTextOrder[i] = x.v

\* ORDER BY (status = 'done') ASC, bucket, priority,
\*          COALESCE(due_date, '9999-12-31') ASC
feedKey(r) ==
  <<IF r.status = Str("done") THEN 1 ELSE 0,
    TextRank(r.bucket),
    r.priority.n,
    IF r.due_date = Null THEN Year9999 ELSE r.due_date.h>>

\* GET /tasks
ListRecompute ==
  /\ variant = "recompute"
  /\ req' = [op |-> "list", user |-> NoUser]
  /\ \E rows \in OrderBy(tasks, feedKey) : res' = Response(200, withScores(rows))
  /\ UNCHANGED <<variant, tasks, nextId, now, arg, ret, dump>>

\* PATCH /tasks/:id/complete
CompleteRecompute(id) ==
  /\ variant = "recompute"
  /\ req' = [op |-> "complete", user |-> NoUser, id |-> id]
  /\ IF ~IsInteger(id)
       THEN /\ res' = Response(400, ErrorBody)
            /\ UNCHANGED tasks
     ELSE IF ~InInt4(id)
       THEN /\ res' = Response(500, ErrorBody)
            /\ UNCHANGED tasks
     ELSE /\ tasks' = MarkDone(id.n)
          /\ res' = IF RowsWithId(MarkDone(id.n), id.n) = <<>>
                      THEN Response(404, ErrorBody)
                      ELSE Response(200, withScoresRow(RowsWithId(MarkDone(id.n), id.n)[1]))
  /\ UNCHANGED <<variant, nextId, now, arg, ret, dump>>

\* DELETE /tasks/:id
DeleteRecompute(id) ==
  /\ variant = "recompute"
  /\ req' = [op |-> "delete", user |-> NoUser, id |-> id]
  /\ IF ~IsInteger(id)
       THEN /\ res' = Response(400, ErrorBody)
            /\ UNCHANGED tasks
     ELSE IF ~InInt4(id)
       THEN /\ res' = Response(500, ErrorBody)
            /\ UNCHANGED tasks
     ELSE /\ tasks' = DeleteRows(id.n)
          /\ res' = IF Len(DeleteRows(id.n)) = Len(tasks)
                      THEN Response(404, ErrorBody)
                      ELSE Response(200, [ok |-> TRUE])
  /\ UNCHANGED <<variant, nextId, now, arg, ret, dump>>

\* the loop of POST /brain-dump up to its next insert: if (!title) continue
RECURSIVE SkipUntitledRecompute(_)
SkipUntitledRecompute(ds) ==
  IF ds # <<>> /\ ~Truthy(Head(ds).title)
    THEN SkipUntitledRecompute(Tail(ds))
    ELSE ds

DraftFieldsRecompute(t, body) ==
  [title |-> t.title,
   description |-> Default(t.description, Null),
   area |-> Default(t.area, OrElse(Default(body.default_area, Null), Null)),
   status |-> Str("open"),
   bucket |-> Default(t.bucket, Default(body.default_bucket, Str("today"))),
   priority |-> Default(t.priority, Num(3)),
   due_date |-> Default(t.due_date, Null)]

\* POST /brain-dump from the request to its first insert
DumpStartRecompute(body, reply) ==
  /\ variant = "recompute"
  /\ dump = NoValue
  /\ IF ~TitleOk(body.text)
       THEN /\ res' = Response(400, ErrorBody)
            /\ req' = DumpReq(body, NoValue)
            /\ UNCHANGED dump
     ELSE IF reply \in {Unreachable, Malformed}
       THEN /\ res' = Response(500, ErrorBody)
            /\ req' = DumpReq(body, reply)
            /\ UNCHANGED dump
     ELSE LET ds == IF reply = NoText THEN <<>> ELSE reply.drafts
          IN IF SkipUntitledRecompute(ds) = <<>>
               THEN /\ res' = Response(200, <<>>)
                    /\ req' = DumpReq(body, reply)
                    /\ UNCHANGED dump
               ELSE /\ dump' = [body |-> body, reply |-> reply,
                                pending |-> SkipUntitledRecompute(ds),
                                created |-> <<>>]
                    /\ req' = NoValue
                    /\ res' = NoValue
  /\ UNCHANGED <<variant, tasks, nextId, now, arg, ret>>

\* POST /brain-dump from one insert to the next, or to the response
DumpInsertRecompute ==
  /\ variant = "recompute"
  /\ dump # NoValue
  /\ LET f == DraftFieldsRecompute(Head(dump.pending), dump.body)
         row == InsertRecompute(f)
         rest == SkipUntitledRecompute(Tail(dump.pending))
     IN IF ~PgAccepts(f)
          THEN /\ res' = Response(500, ErrorBody)
               /\ req' = DumpReq(dump.body, dump.reply)
               /\ dump' = NoValue
               /\ UNCHANGED <<tasks, nextId>>
          ELSE /\ nextId <= MaxTasks
               /\ tasks' = Append(tasks, row)
               /\ nextId' = nextId + 1
               /\ IF rest = <<>>
                    THEN /\ res' = Response(200, push(dump.created, withScoresRow(row)))
                         /\ req' = DumpReq(dump.body, dump.reply)
                         /\ dump' = NoValue
                    ELSE /\ dump' = [dump EXCEPT !.pending = rest,
                                                 !.created = push(@, withScoresRow(row))]
                         /\ req' = NoValue
                         /\ res' = NoValue
  /\ UNCHANGED <<variant, now, arg, ret>>

\* POST /chat
ChatRecompute(body, reply) ==
  /\ variant = "recompute"
  /\ IF ~TitleOk(body.prompt)
       THEN /\ res' = Response(400, ErrorBody)
            /\ req' = ChatReq(body, NoValue, NoValue)
       ELSE \E rows \in OrderBy(tasks, feedKey) :
              /\ req' = ChatReq(body, [prompt |-> body.prompt,
                                       tasks |-> withScores(rows)], reply)
              /\ res' = IF reply = Unreachable
                          THEN Response(500, ErrorBody)
                          ELSE Response(200,
                                 [response |-> Answer(reply, Str("No response from model.")),
                                  task_count |-> Len(rows)])
  /\ UNCHANGED <<variant, tasks, nextId, now, arg, ret, dump>>

(* ------------------------------ the clock ------------------------------ *)

\* time passes between two requests
Tick ==
  /\ variant # "none"
  /\ \E d \in TickSteps :
       /\ now + d <= MaxTicks * d
       /\ now' = now + d
  /\ req' = NoValue
  /\ res' = NoValue
  /\ UNCHANGED <<variant, tasks, nextId, arg, ret, dump>>

Init ==
  /\ variant \in {"peruser", "persisted", "recompute"}
  /\ tasks = <<>>
  /\ nextId = 1
  /\ now = 0
  /\ req = NoValue
  /\ res = NoValue
  /\ arg = NoValue
  /\ ret = NoValue
  /\ dump = NoValue

Next ==
  \/ \E op \in {"create", "list", "update", "delete"} : Unauthorized(op)
  \/ \E u \in Users, body \in ApiCreateBodies : CreatePerUser(u, body)
  \/ \E body \in CreateBodies : CreatePersisted(body)
  \/ \E body \in CreateBodies : CreateRecompute(body)
  \/ \E u \in Users : ListPerUser(u)
  \/ ListPersisted
  \/ ListRecompute
  \/ \E id \in IdParams : CompletePersisted(id)
  \/ \E id \in IdParams : CompleteRecompute(id)
  \/ \E u \in Users, id \in IdParams, body \in UpdateBodies : UpdatePerUser(u, id, body)
  \/ \E u \in Users, id \in IdParams : DeletePerUser(u, id)
  \/ \E id \in IdParams : DeletePersisted(id)
  \/ \E id \in IdParams : DeleteRecompute(id)
  \/ \E body \in DumpBodies, reply \in DumpReplies : DumpStartPersisted(body, reply)
  \/ DumpInsertPersisted
  \/ \E body \in DumpBodies, reply \in DumpReplies : DumpStartRecompute(body, reply)
  \/ DumpInsertRecompute
  \/ \E body \in ChatBodies, reply \in ChatReplies : ChatPersisted(body, reply)
  \/ \E body \in ChatBodies, reply \in ChatReplies : ChatRecompute(body, reply)
  \/ Tick

Spec == Init /\ [][Next]_vars

\* the task routes alone: create, list and complete, with the clock
NextTasks ==
  \/ \E op \in {"create", "list"} : Unauthorized(op)
  \/ \E u \in Users, body \in ApiCreateBodies : CreatePerUser(u, body)
  \/ \E body \in CreateBodies : CreatePersisted(body)
  \/ \E body \in CreateBodies : CreateRecompute(body)
  \/ \E u \in Users : ListPerUser(u)
  \/ ListPersisted
  \/ ListRecompute
  \/ \E id \in IdParams : CompletePersisted(id)
  \/ \E id \in IdParams : CompleteRecompute(id)
  \/ Tick

SpecTasks == Init /\ [][NextTasks]_vars

\* the per-user deployment: the /api/tasks routes
InitApi == Init /\ variant = "peruser"

NextApi ==
  \/ \E op \in {"create", "list", "update", "delete"} : Unauthorized(op)
  \/ \E u \in Users, body \in ApiCreateBodies : CreatePerUser(u, body)
  \/ \E u \in Users : ListPerUser(u)
  \/ \E u \in Users, id \in IdParams, body \in UpdateBodies : UpdatePerUser(u, id, body)
  \/ \E u \in Users, id \in IdParams : DeletePerUser(u, id)

SpecApi == InitApi /\ [][NextApi]_vars

\* the Postgres deployments: the collaborator routes, with deletes and the
\* clock between their steps
InitAssistant == Init /\ variant \in {"persisted", "recompute"}

NextAssistant ==
  \/ \E body \in DumpBodies, reply \in DumpReplies : DumpStartPersisted(body, reply)
  \/ DumpInsertPersisted
  \/ \E body \in DumpBodies, reply \in DumpReplies : DumpStartRecompute(body, reply)
  \/ DumpInsertRecompute
  \/ \E body \in ChatBodies, reply \in ChatReplies : ChatPersisted(body, reply)
  \/ \E body \in ChatBodies, reply \in ChatReplies : ChatRecompute(body, reply)
  \/ \E id \in IdParams : DeletePersisted(id)
  \/ \E id \in IdParams : DeleteRecompute(id)
  \/ Tick

SpecAssistant == InitAssistant /\ [][NextAssistant]_vars

(* ---------------------- claims about the service ----------------------- *)

IsReq(r, op) == r # NoValue /\ r.op = op

\* the tasks that the response of the latest request reports
ReportedTasks ==
  IF res = NoValue \/ res.code \notin {200, 201} THEN {}
  ELSE IF req.op \in {"list", "brain-dump"}
    THEN {res.body[i] : i \in 1..Len(res.body)}
  ELSE IF req.op \in {"create", "complete", "update"} THEN {res.body}
  ELSE {}

\* the scoring function applied to a task's priority, bucket, due_date and
\* description at the current time
ScoresNow(r) ==
  IF variant = "persisted"
    THEN computeScores(r)
    ELSE computeTonyScore([r EXCEPT !.leverage_score = Null,
                                    !.risk_score = Null,
                                    !.friction_score = Null])

\* C1: the leverage, urgency, risk and friction (and, where reported, the
\* composite score) that a create, list or complete response reports with a
\* task are those the scoring function gives for the task's current fields
\* at the time of the response, never a value stored earlier.
C1_ScoresCurrent ==
  /\ variant = "persisted" =>
       \A r \in ReportedTasks :
          /\ r.leverage_score = Num(ScoresNow(r).L)
          /\ r.urgency_score = Num(ScoresNow(r).U)
          /\ r.risk_score = Num(ScoresNow(r).R)
          /\ r.friction_score = Num(ScoresNow(r).F)
  /\ variant = "recompute" =>
       \A r \in ReportedTasks :
          /\ r.L = Num(ScoresNow(r).L)
          /\ r.U = Num(ScoresNow(r).U)
          /\ r.R = Num(ScoresNow(r).R)
          /\ r.F = Num(ScoresNow(r).F)
          /\ r.score = Num(ScoresNow(r).score)

DocumentedBuckets == {Str("today"), Str("this_week"), Str("later"), Str("backlog")}

\* the sort key the list operation is documented to use
DocumentedKey(r) ==
  <<IF r.status = Str("done") THEN 1 ELSE 0,
    CASE r.bucket = Str("today") -> 1
      [] r.bucket = Str("this_week") -> 2
      [] r.bucket = Str("later") -> 3
      [] OTHER -> 4,
    r.priority.n,
    IF r.due_date = Null THEN 1 ELSE 0,
    IF r.due_date = Null THEN 0 ELSE r.due_date.h>>

\* C7: the list operation returns all tasks, not-done before done, then by
\* bucket rank today < this_week < later < backlog, then by ascending
\* priority, then by ascending due date with tasks without one last.
C7_ListOrder ==
  (variant = "recompute" /\ IsReq(req, "list") /\ res.code = 200) =>
    /\ Len(res.body) = Len(tasks)
    /\ \A i, j \in 1..Len(res.body) :
         ( /\ i < j
           /\ res.body[i].bucket \in DocumentedBuckets
           /\ res.body[j].bucket \in DocumentedBuckets )
         => ~KeyLess(DocumentedKey(res.body[j]), DocumentedKey(res.body[i]))

NonEmptyString(x) == x.k = "string" /\ Truthy(x)

\* C8: a create request whose title is missing, empty or not a string is
\* answered with a client error and leaves the table unchanged; one whose
\* title is a non-empty string inserts exactly one new task.
C8_CreateTitle ==
  [][ (IsReq(req', "create") /\ "body" \in DOMAIN req') =>
        IF NonEmptyString(req'.body.title)
          THEN /\ Len(tasks') = Len(tasks) + 1
               /\ SubSeq(tasks', 1, Len(tasks)) = tasks
          ELSE /\ res'.code \in 400..499
               /\ tasks' = tasks ]_vars

RequestFields ==
  {"title", "description", "area", "status", "bucket", "priority", "due_date"}

\* C9: a task created with a title and nothing else is stored and returned
\* with status open (todo in the per-user variant), bucket later, priority 3
\* and no due date, and every field that the request supplies is stored as
\* supplied.
C9_CreateDefaults ==
  (IsReq(req, "create") /\ res.code = 201) =>
    LET body == req.body
        row == tasks[Len(tasks)]
    IN /\ \A c \in RequestFields : body[c] # Undef => row[c] = body[c]
       /\ body.status = Undef =>
            row.status = (IF variant = "peruser" THEN Str("todo") ELSE Str("open"))
       /\ body.bucket = Undef => row.bucket = Str("later")
       /\ body.priority = Undef => row.priority = Num(3)
       /\ body.due_date = Undef => row.due_date = Null
       /\ \A c \in RequestFields \cup {"id"} : res.body[c] = row[c]

C9_Witness ==
  /\ variant = "recompute"
  /\ IsReq(req, "create")
  /\ res.code = 201
  /\ req.body = [EmptyBody EXCEPT !.title = Str("Pay tax")]
  /\ tasks[Len(tasks)].bucket = Str("later")
  /\ Len(tasks) = 2
  /\ tasks[1].status = Str("doing")

\* whether a stored task holds the id of a request
Held(table, id) == InInt4(id) /\ \E i \in 1..Len(table) : table[i].id = id.n

\* C10: complete(id) for the id of a stored task sets that task's status to
\* done, refreshes its updated_at, returns the updated task and changes no
\* other field and no other task, also when the task was done already; for
\* every id that no stored task holds it answers not-found, never a server
\* error, and leaves the table unchanged.
C10_Complete ==
  [][ (IsReq(req', "complete") /\ IsInteger(req'.id)) =>
        IF Held(tasks, req'.id)
          THEN /\ res'.code = 200
               /\ Len(tasks') = Len(tasks)
               /\ \A i \in 1..Len(tasks) :
                    IF tasks[i].id = req'.id.n
                      THEN /\ tasks'[i] = [tasks[i] EXCEPT !.status = Str("done"),
                                                           !.updated_at = now]
                           /\ \A c \in (DOMAIN tasks[i]) \ ScoreKeys :
                                 res'.body[c] = tasks'[i][c]
                      ELSE tasks'[i] = tasks[i]
          ELSE /\ res'.code = 404
               /\ tasks' = tasks ]_vars

\* the stored tasks that a request for id may touch: those with that id and,
\* in the per-user variant, owned by the caller
Own(table, r) ==
  SelectSeq(table, LAMBDA t : /\ InInt4(r.id)
                              /\ t.id = r.id.n
                              /\ variant = "peruser" => t.user_id = r.user)

\* C11: delete(id) removes exactly the task with that id and no other task
\* when such a task exists, and answers not-found, leaving the table
\* unchanged, when no stored task (of the caller) has that id; so a second
\* delete of a deleted id answers not-found.
C11_Delete ==
  [][ (IsReq(req', "delete") /\ "id" \in DOMAIN req' /\ IsInteger(req'.id)) =>
        IF Own(tasks, req') # <<>>
          THEN /\ res'.code \in 200..299
               /\ tasks' = SelectSeq(tasks, LAMBDA t : t.id # req'.id.n)
          ELSE /\ res'.code = 404
               /\ tasks' = tasks ]_vars

\* a step that answers a brain-dump request
DumpAnswered == IsReq(req', "brain-dump") /\ dump' = NoValue

\* the drafts of a list whose title is a non-empty string
Titled(ds) == SelectSeq(ds, LAMBDA t : NonEmptyString(t.title))

\* C12: for every list of drafts the collaborator returns, brain-dump
\* creates exactly one task per draft whose title is non-empty and none for
\* a draft whose title is empty or missing, in draft order, and answers with
\* success.
C12_DumpDrafts ==
  [][ (DumpAnswered /\ req'.reply # NoValue /\ req'.reply.k = "drafts") =>
        /\ res'.code \in 200..299
        /\ Len(res'.body) = Len(Titled(req'.reply.drafts))
        /\ \A i \in 1..Len(res'.body) :
             /\ res'.body[i].title = Titled(req'.reply.drafts)[i].title
             /\ \A j \in 1..Len(res'.body) :
                  i < j => res'.body[i].id < res'.body[j].id ]_vars

\* a collaborator that is unreachable, returns malformed JSON or returns a
\* completion with no text
CollaboratorFailed(r) ==
  /\ "reply" \in DOMAIN r
  /\ r.reply \in {Unreachable, Malformed, NoText}

\* C13: when the collaborator is unreachable, returns malformed JSON or
\* returns a completion with no text, brain-dump and chat answer with an
\* error response, never with a success response, and create no task.
C13_CollaboratorFailure ==
  [][ ( /\ req' # NoValue
        /\ req'.op \in {"brain-dump", "chat"}
        /\ CollaboratorFailed(req') ) =>
        /\ res'.code >= 400
        /\ tasks' = tasks ]_vars

Ids(rows) == {rows[i].id : i \in 1..Len(rows)}

\* the ids of the tasks that the brain-dump answered by this step inserted
Inserted ==
  (IF dump = NoValue THEN {} ELSE Ids(dump.created))
    \cup (Ids(tasks') \ Ids(tasks))

\* C18: the tasks a brain-dump request added to the store are exactly the
\* tasks listed in its response; when the request answers with an error, no
\* task of its batch remains in the store.
C18_DumpAtomic ==
  [][ DumpAnswered =>
        IF res'.code \in 200..299
          THEN Ids(res'.body) = Inserted
          ELSE Inserted \cap Ids(tasks') = {} ]_vars

\* C18 as amended: a brain-dump answered with success lists exactly the
\* tasks it inserted; one answered with an error after the store rejected a
\* draft rolls nothing back, so the tasks of the drafts inserted before
\* stay in the store.
C18_DumpPerInsert ==
  [][ DumpAnswered =>
        IF res'.code \in 200..299
          THEN Ids(res'.body) = Inserted
          ELSE /\ res'.code >= 400
               /\ tasks' = tasks ]_vars

\* a brain-dump answered with an error whose first draft is in the store
C18_Witness ==
  /\ IsReq(req, "brain-dump")
  /\ res.code = 500
  /\ req.reply # NoValue
  /\ req.reply.k = "drafts"
  /\ \E i \in 1..Len(tasks) : tasks[i].title = FixDraft.title

\* the task list a chat sent to the collaborator is the whole table, each
\* task with its columns and with scores
SentTasksOk(st) ==
  /\ Len(st) = Len(tasks)
  /\ Ids(st) = Ids(tasks)
  /\ \A i \in 1..Len(st) : \A j \in 1..Len(tasks) :
       st[i].id = tasks[j].id =>
         /\ \A c \in (DOMAIN tasks[j]) \ ScoreKeys : st[i][c] = tasks[j][c]
         /\ variant = "persisted" =>
              \A c \in {"leverage_score", "urgency_score", "risk_score",
                         "friction_score"} : st[i][c].k = "number"
         /\ variant = "recompute" =>
              \A c \in ScoreKeys : st[i][c] = Num(ScoresNow(st[i])[c])

\* what both statements of C14 share: an accepted prompt goes to the
\* collaborator with the task list, no task changes, and a missing or
\* non-string prompt is rejected before the collaborator is called
ChatFrame ==
  /\ tasks' = tasks
  /\ IF NonEmptyString(req'.body.prompt)
       THEN /\ req'.sent # NoValue
            /\ req'.sent.prompt = req'.body.prompt
            /\ SentTasksOk(req'.sent.tasks)
       ELSE /\ res'.code \in 400..499
            /\ req'.sent = NoValue

\* C14: chat(prompt) with a non-empty string prompt passes the collaborator
\* the current task list with scores plus the prompt, returns the
\* collaborator's text without modifying it, and changes no task; a missing
\* or non-string prompt is rejected with a client error before the
\* collaborator is called.
C14_Chat ==
  [][ IsReq(req', "chat") =>
        /\ ChatFrame
        /\ (req'.reply # NoValue /\ req'.reply.k = "text") =>
             /\ res'.code = 200
             /\ res'.body.response = req'.reply.text ]_vars

\* C14 as amended: the text returned is the collaborator's text with its
\* leading and trailing white space removed, when the text is not blank.
C14_ChatTrimmed ==
  [][ IsReq(req', "chat") =>
        /\ ChatFrame
        /\ ( /\ req'.reply # NoValue
             /\ req'.reply.k = "text"
             /\ \E i \in 1..Len(req'.reply.text.c) : req'.reply.text.c[i] # " " ) =>
             /\ res'.code = 200
             /\ res'.body.response.c = TrimEnd(SkipSpace(req'.reply.text.c)) ]_vars

\* a chat over a stored task answered with the collaborator's " ok "
C14_Witness ==
  /\ IsReq(req, "chat")
  /\ res.code = 200
  /\ req.reply = Text(<<" ", "o", "k", " ">>)
  /\ res.body.response = Txt(<<"o", "k">>)
  /\ Len(req.sent.tasks) >= 1

DocumentedStatuses ==
  {Str("open"), Str("todo"), Str("doing"), Str("scheduled"), Str("done")}

\* C15: every stored task has a non-empty title, a status among open/todo,
\* doing, scheduled and done, a bucket among today, this_week, later and
\* backlog, and an integer priority in 1..5.
C15_StoredDomains ==
  \A i \in 1..Len(tasks) :
     /\ NonEmptyString(tasks[i].title)
     /\ tasks[i].status \in DocumentedStatuses
     /\ tasks[i].bucket \in DocumentedBuckets
     /\ tasks[i].priority \in {Num(p) : p \in 1..5}

\* the stored tasks that user u does not own
NotOf(table, u) == SelectSeq(table, LAMBDA t : t.user_id # u)

\* C16: in the per-user variant a request of user A lists only (and all of)
\* A's tasks, an update of a task id that A does not own answers not-found,
\* and no request of A changes or removes a task of another user; a request
\* without a signed-in user is answered Unauthorized and changes nothing.
C16_Isolation ==
  [][ (variant = "peruser" /\ req' # NoValue) =>
        IF req'.user = NoUser
          THEN res'.code = 401 /\ tasks' = tasks
          ELSE /\ NotOf(tasks', req'.user) = NotOf(tasks, req'.user)
               /\ (req'.op = "list") =>
                    /\ \A i \in 1..Len(res'.body) : res'.body[i].user_id = req'.user
                    /\ Len(res'.body) + Len(NotOf(tasks, req'.user)) = Len(tasks)
               /\ (req'.op \in {"create", "update"} /\ res'.code \in 200..299) =>
                    res'.body.user_id = req'.user
               /\ (req'.op = "update" /\ Truthy(req'.id) /\ Own(tasks, req') = <<>>) =>
                    res'.code = 404 ]_vars

\* user 1 asked to delete the task of user 2, which is still stored
C16_Witness ==
  /\ variant = "peruser"
  /\ IsReq(req, "delete")
  /\ req.user = 1
  /\ res.code = 204
  /\ \E i \in 1..Len(tasks) :
       /\ InInt4(req.id)
       /\ tasks[i].id = req.id.n
       /\ tasks[i].user_id = 2

\* C17: for a task with a fixed valid due date the urgency and the risk
\* computed at successive times never decrease, and the urgency is 5 at
\* every time after the due date; for a task with no due date the urgency
\* and the risk do not change with time.
C17_UrgencyOverTime ==
  [][ /\ DueValid(arg.task) =>
           /\ ret'.U >= ret.U
           /\ ret'.R >= ret.R
           /\ now' > arg.task.due_date.h => ret'.U = 5
      /\ DueAbsent(arg.task) =>
           /\ ret'.U = ret.U
           /\ ret'.R = ret.R ]_vars

\* the due date of a task scored 1 at first has passed, and its urgency is 5
C17_Witness ==
  /\ arg # NoValue
  /\ arg.fn = "computeTonyScore"
  /\ arg.task.due_date = Iso(200)
  /\ now > 200
  /\ ret.U = 5
  /\ ret.R = 4

====
